---- MODULE Spec2Model ----
(***************************************************************************)
(* The message store hook useMessages (src/src/hooks/useMessages.ts) and   *)
(* the Transport it calls (fetchMessages / sendMessage of                  *)
(* src/src/api/messages.ts), as a state machine.                           *)
(*                                                                         *)
(* One step is one uninterrupted run of JavaScript: a call of retry,       *)
(* loadMore or sendMessage up to its first await, or the continuation of   *)
(* one of them after its Transport promise settled (try / catch / finally  *)
(* included).  React commits the batched setState calls of such a run      *)
(* before the next one reads the hook's result, so a caller always sees    *)
(* the committed state, as `result.current` does in the tests.             *)
(*                                                                         *)
(* The Transport is the environment: what a request resolves or rejects    *)
(* with is chosen nondeterministically when it settles.                    *)
(***************************************************************************)
EXTENDS Integers, Sequences, FiniteSets, Bags, TLC

\* ------------------------------------------------------------------ bounds
MaxId == 4          \* messages the Transport can return
MaxLimit == 1       \* largest configured page size
MaxLen == 2         \* longest list of messages explored
MaxPending == 2     \* Transport requests in flight at once
MaxTimers == 4      \* timers one Tooltip starts

\* ------------------------------------------------------------- data model
\* An ISO-8601 timestamp string: the instant it denotes and the way it is
\* written ("...Z" or "...+00:00"), so two different strings may denote the
\* same instant.
Timestamp(i) == [instant |-> (i \div 2) + 1,
                 form |-> IF i % 2 = 1 THEN "Z" ELSE "+00:00"]

\* new Date(timestamp).getTime()
getTime(timestamp) == timestamp.instant

\* A Message; text and author play no part in the store's logic.
Message(i) == [id |-> i, timestamp |-> Timestamp(i)]

Messages == {Message(i) : i \in 1..MaxId}

NoMessage == [id |-> 0, timestamp |-> [instant |-> 0, form |-> "none"]]

\* `after` of a fetch without a cursor (undefined).
NoCursor == [instant |-> 0, form |-> "undefined"]

\* Values a Transport promise can reject with: an Error, or something that
\* is not an Error (a bare string).
NetworkError == [kind |-> "Error", message |-> "Network error"]

StringRejection == [kind |-> "string", message |-> "string error"]

Rejections == {NetworkError, StringRejection}

\* error === null
Null == [kind |-> "null", message |-> ""]

\* The rejection value stored as it was thrown.
StoreAsThrown(err, fallback) == err

\* err instanceof Error ? err : new Error(fallback)
NormalizeError(err, fallback) ==
    IF err.kind = "Error" THEN err ELSE [kind |-> "Error", message |-> fallback]

\* The page sizes a store is configured with.
Limits == 1..MaxLimit

\* const DEFAULT_LIMIT = 30
DEFAULT_LIMIT == 30

\* The ways to call useMessages: with a limit, or without an argument.
Arguments ==
    {[given |-> TRUE, limit |-> n] : n \in Limits} \cup {[given |-> FALSE, limit |-> 0]}

\* A default that is not 30.
OtherDefault(argument) == IF argument.given THEN argument.limit ELSE 50

\* useMessages(limit: number = DEFAULT_LIMIT)
Configured(argument) == IF argument.given THEN argument.limit ELSE DEFAULT_LIMIT

\* Arguments of sendMessage(message, author).
SendInputs == {<<"hello", "ann">>, <<"", " ">>}

\* Pages a fetch can resolve with, by length: distinct messages, newest
\* first or oldest first (ties either way round), up to one more than the
\* largest page size.
AllPages ==
    [k \in 0..(MaxLimit + 1) |->
        {p \in [1..k -> Messages] :
            \/ \A i, j \in 1..k : i < j => p[i].id > p[j].id
            \/ \A i, j \in 1..k : i < j => p[i].id < p[j].id}]

\* ------------------------------------------------------------------ state
VARIABLES
    limit,              \* the hook's parameter
    messages,           \* useState<Message[]>([])
    isLoading,          \* useState(true)
    isLoadingMore,      \* useState(false)
    isSending,          \* useState(false)
    error,              \* useState<Error | null>(null)
    hasMore,            \* useState(false)
    isLoadingMoreRef,   \* useRef(false)
    pending,            \* bag of Transport requests issued and not settled
    last,               \* the step that led to this state
    loadOverlapped,     \* an initial-load result replaced the list while a loadMore
                        \* was in flight (recorded under SpecPaged only)
    wire,               \* one call of fetchMessages / sendMessage of the Transport:
                        \* the HTTP exchange it meets and what its promise settles
                        \* with (followed under SpecTransport only)
    server,             \* the messages the server of the Chat API holds, and those
                        \* it created for sends it has not answered yet (followed
                        \* under SpecServer and SpecHistory only)
    tooltip             \* a Tooltip: its state, its timeoutRef and the timers of
                        \* the window (followed under SpecTooltip only)

store == <<messages, isLoading, isLoadingMore, isSending, error, hasMore>>

vars == <<limit, messages, isLoading, isLoadingMore, isSending, error, hasMore,
          isLoadingMoreRef, pending, last, loadOverlapped, wire, server,
          tooltip>>

\* ------------------------------------------------------ Transport requests
FetchRequest(kind, after, lim) ==
    [kind |-> kind, after |-> after, limit |-> lim, message |-> "", author |-> ""]

SendRequest(message, author) ==
    [kind |-> "sendMessage", after |-> NoCursor, limit |-> 0,
     message |-> message, author |-> author]

NoRequest ==
    [kind |-> "none", after |-> NoCursor, limit |-> 0, message |-> "", author |-> ""]

\* A request in flight: what the Transport's answer can depend on here (the
\* Message a send returns carries no text or author in this model).
Call(request) == [request EXCEPT !.message = "", !.author = ""]

Issue(request) == pending (+) SetToBag({Call(request)})

Settle(call) == pending (-) SetToBag({call})

InFlight(kind) == {r \in BagToSet(pending) : r.kind = kind}

CanIssue == BagCardinality(pending) < MaxPending

\* What a step did, as its caller and the Transport see it: the operation,
\* whether it is the call or the settling, the Transport request it issued
\* (NoRequest if none), how the Transport call ended, the state of the
\* promise the operation returned, the length of the page fetched (-1 if
\* none), the Message returned and the value rejected with; a successful
\* fetch adds the messages of its page.
Step(op, phase, request, outcome, promise, fetched, value, reason) ==
    [op |-> op, phase |-> phase, issued |-> request.kind # "none",
     request |-> request, outcome |-> outcome, promise |-> promise,
     fetched |-> fetched, page |-> {}, value |-> value, reason |-> reason]

\* The messages of a page, whatever their order.
Range(page) == {page[i] : i \in 1..Len(page)}

\* A page stored as it arrived.
Unsorted(page) == page

\* ---------------------------------------------------------------- sorting
\* [...page].sort((a, b) => getTime(a) - getTime(b)): Array.prototype.sort
\* is stable, so messages of one instant keep their order.
RECURSIVE SortByTimestamp(_)
InsertByTimestamp(sorted, m) ==
    LET before == {i \in 1..Len(sorted) :
                       getTime(sorted[i].timestamp) <= getTime(m.timestamp)}
        n == Cardinality(before)
    IN  SubSeq(sorted, 1, n) \o <<m>> \o SubSeq(sorted, n + 1, Len(sorted))

SortByTimestamp(page) ==
    IF page = <<>> THEN <<>>
    ELSE InsertByTimestamp(SortByTimestamp(SubSeq(page, 1, Len(page) - 1)),
                           page[Len(page)])

\* --------------------------------------------- the Transport on the wire
\* A JavaScript value as the client uses it: its type, String(value) (the
\* message of new Error(value)) and JSON.stringify(value).
Value(type, text, json) == [type |-> type, text |-> text, json |-> json]

String(text) == Value("string", text, "<quoted>")

Undefined == Value("undefined", "undefined", "undefined")

\* [] is truthy and String([]) is the empty string.
EmptyArray == Value("array", "", "[]")

MessageArray == Value("array", "[object Object]", "[{...}]")

ErrorObject == Value("object", "[object Object]", "{\"code\":1}")

\* if (value) ...
Truthy(value) ==
    CASE value.type = "undefined" -> FALSE
      [] value.type = "string" -> value.text # ""
      [] OTHER -> TRUE

\* A response body: its text, what JSON.parse makes of it ("invalid" when
\* it throws), the value parsed, its properties message, error and
\* messages (Undefined when it has none) and whether it is a Message.
Body(text, parsed, value, messageOf, errorOf, messagesOf, isMessage) ==
    [text |-> text, parsed |-> parsed, value |-> value, message |-> messageOf,
     error |-> errorOf, messages |-> messagesOf, isMessage |-> isMessage]

Bodies ==
    { Body("", "invalid", Undefined, Undefined, Undefined, Undefined, FALSE),
      Body("<html>Bad Gateway</html>", "invalid", Undefined, Undefined, Undefined,
           Undefined, FALSE),
      Body("\"\"", "string", String(""), Undefined, Undefined, Undefined, FALSE),
      Body("\"quota exceeded\"", "string", String("quota exceeded"), Undefined,
           Undefined, Undefined, FALSE),
      Body("null", "null", Value("null", "null", "null"), Undefined, Undefined,
           Undefined, FALSE),
      Body("0", "number", Value("number", "0", "0"), Undefined, Undefined, Undefined,
           FALSE),
      Body("{}", "object", Value("object", "[object Object]", "{}"), Undefined,
           Undefined, Undefined, FALSE),
      Body("{\"message\":\"Invalid token\"}", "object",
           Value("object", "[object Object]", "{\"message\":\"Invalid token\"}"),
           String("Invalid token"), Undefined, Undefined, FALSE),
      Body("{\"message\":\"\"}", "object",
           Value("object", "[object Object]", "{\"message\":\"\"}"),
           String(""), Undefined, Undefined, FALSE),
      Body("{\"message\":[]}", "object",
           Value("object", "[object Object]", "{\"message\":[]}"),
           EmptyArray, Undefined, Undefined, FALSE),
      Body("{\"error\":\"unauthorized\"}", "object",
           Value("object", "[object Object]", "{\"error\":\"unauthorized\"}"),
           Undefined, String("unauthorized"), Undefined, FALSE),
      Body("{\"error\":{\"code\":1}}", "object",
           Value("object", "[object Object]", "{\"error\":{\"code\":1}}"),
           Undefined, ErrorObject, Undefined, FALSE),
      Body("{\"error\":\"server_error\",\"message\":\"Internal server error\"}",
           "object",
           Value("object", "[object Object]",
                 "{\"error\":\"server_error\",\"message\":\"Internal server error\"}"),
           String("Internal server error"), String("server_error"), Undefined, FALSE),
      Body("{\"messages\":[]}", "object",
           Value("object", "[object Object]", "{\"messages\":[]}"),
           Undefined, Undefined, EmptyArray, FALSE),
      Body("{\"messages\":[{...}]}", "object",
           Value("object", "[object Object]", "{\"messages\":[{...}]}"),
           Undefined, Undefined, MessageArray, FALSE),
      Body("{\"messages\":\"none\"}", "object",
           Value("object", "[object Object]", "{\"messages\":\"none\"}"),
           Undefined, Undefined, String("none"), FALSE),
      Body("{\"id\":\"1\",\"message\":\"hi\",\"author\":\"ann\",\"timestamp\":\"...\"}",
           "object",
           Value("object", "[object Object]",
                 "{\"id\":\"1\",\"message\":\"hi\",\"author\":\"ann\",\"timestamp\":\"...\"}"),
           String("hi"), Undefined, Undefined, TRUE) }

\* response.statusText; empty over HTTP/2.
StatusTexts == {"", "Internal Server Error"}

\* What a call of fetchMessages or sendMessage meets: fetch() rejects, or
\* answers with a Response.
Exchange(function, network, ok, statusText, body) ==
    [function |-> function, network |-> network, ok |-> ok,
     statusText |-> statusText, body |-> body]

NoBody == Body("", "invalid", Undefined, Undefined, Undefined, Undefined, FALSE)

Exchanges ==
    {Exchange(f, "fails", FALSE, "", NoBody) : f \in {"fetchMessages", "sendMessage"}}
    \cup {Exchange(f, "answers", ok, statusText, body) :
             f \in {"fetchMessages", "sendMessage"}, ok \in BOOLEAN,
             statusText \in StatusTexts, body \in Bodies}

\* How a promise settled: resolved with a value, or rejected with an Error.
Resolved(value) == [state |-> "resolved", value |-> value, error |-> Null]

Rejected(message) ==
    [state |-> "rejected", value |-> Undefined,
     error |-> [kind |-> "Error", message |-> message]]

Unsettled == [state |-> "pending", value |-> Undefined, error |-> Null]

\* The error message handleResponse works out for a response that is not ok.
ErrorMessage(response) ==
    LET errorBody == response.body.text
        errorJson == response.body
    IN  CASE errorJson.parsed \in {"invalid", "null"} ->
                 \* JSON.parse threw, or errorJson.message did on null
                 IF errorBody # "" THEN String(errorBody) ELSE String(response.statusText)
          [] errorJson.parsed = "string" -> errorJson.value
          [] Truthy(errorJson.message) -> errorJson.message
          [] Truthy(errorJson.error) ->
                 IF errorJson.error.type = "string" THEN errorJson.error
                 ELSE String(errorJson.error.json)
          [] OTHER -> String(errorJson.value.json)

\* handleResponse: throw new Error(errorMessage || 'An unknown error
\* occurred') unless response.ok, else response.json().
handleResponse(response) ==
    IF ~response.ok
    THEN IF Truthy(ErrorMessage(response))
         THEN Rejected(ErrorMessage(response).text)
         ELSE Rejected("An unknown error occurred")
    ELSE IF response.body.parsed = "invalid"
         THEN Rejected("Unexpected token in JSON")
         ELSE Resolved(response.body)

\* client.get / client.post: await fetch(...), then handleResponse.
Request(exchange) ==
    IF exchange.network = "fails" THEN Rejected("Failed to fetch")
    ELSE handleResponse(exchange)

\* fetchMessages: return response.messages
fetchMessages(exchange) ==
    LET response == Request(exchange)
    IN  IF response.state = "rejected" THEN response
        ELSE IF response.value.parsed = "null"
             THEN Rejected("Cannot read properties of null (reading 'messages')")
             ELSE Resolved(response.value.messages)

\* sendMessage: return client.post<Message>('/api/v1/messages', params)
sendMessage(exchange) ==
    LET response == Request(exchange)
    IN  IF response.state = "rejected" THEN response
        ELSE Resolved(response.value.value)

\* config.apiToken: not set, empty, blank or set.
Tokens == {Undefined, String(""), String(" "), String("test-token")}

\* headers: Authorization: `Bearer ${token}`, Content-Type: application/json
Headers(token) ==
    [Authorization |-> [scheme |-> "Bearer", credential |-> token.text],
     ContentType |-> "application/json"]

NoHeaders ==
    [Authorization |-> [scheme |-> "none", credential |-> ""], ContentType |-> "none"]

NotCreated == [state |-> "none", headers |-> NoHeaders, error |-> Null]

\* A client made whatever the token.
createApiClientUnchecked(token) ==
    [state |-> "created", headers |-> Headers(token), error |-> Null]

\* createApiClient: if (!token) throw new Error('API token is required')
createApiClient(token) ==
    IF ~Truthy(token)
    THEN [state |-> "thrown", headers |-> NoHeaders,
          error |-> [kind |-> "Error", message |-> "API token is required"]]
    ELSE [state |-> "created", headers |-> Headers(token), error |-> Null]

\* fetch(url, { method, headers }) as get and post call it.
FetchCall(method, client) == [method |-> method, headers |-> client.headers]

NotSent == [method |-> "none", headers |-> NoHeaders]

\* No call of the Transport is followed.
NoExchange == [token |-> Undefined, client |-> NotCreated,
               exchange |-> Exchange("none", "fails", FALSE, "", NoBody),
               sent |-> NotSent, result |-> Unsettled]

\* ------------------------------------------------------------- the server
\* No server is followed.
NoServer == [history |-> {}, created |-> {}]

\* The messages a fetch with this cursor can be answered from: all of them
\* without a cursor, those strictly before the cursor with one.
Eligible(after) ==
    {m \in server.history :
        after = NoCursor \/ getTime(m.timestamp) < getTime(after)}

\* The pages the server may answer GET /api/v1/messages?after&limit with:
\* the newest lim of the eligible messages (any of those that tie at the
\* cut), newest first.
Served(after, lim) ==
    {p \in UNION {AllPages[k] : k \in 0..(MaxLimit + 1)} :
        /\ Len(p) <= lim
        /\ Range(p) \subseteq Eligible(after)
        /\ Len(p) = lim \/ Range(p) = Eligible(after)
        /\ \A i, j \in 1..Len(p) :
               i < j => getTime(p[i].timestamp) >= getTime(p[j].timestamp)
        /\ \A m \in Eligible(after) \ Range(p) : \A i \in 1..Len(p) :
               getTime(m.timestamp) <= getTime(p[i].timestamp)}

\* ------------------------------------------------------------ the Tooltip
\* timeoutRef.current = null; the ids window.setTimeout hands out are
\* 1, 2, ...
NoTimer == 0

\* useState({ top: 0, left: 0 }), and the place calculatePosition computes
\* from the trigger's rectangle.
Coords == {"origin", "placed"}

\* A Tooltip just rendered: not visible, no timer. `timers` are the
\* timeouts of the window still to fire, `issued` the number of ids handed
\* out, `hidden` whether hideTooltip ran with no showTooltip after it.
NewTooltip ==
    [mounted |-> TRUE, isVisible |-> FALSE, coords |-> "origin",
     timeoutRef |-> NoTimer, timers |-> {}, issued |-> 0, hidden |-> FALSE]

\* No Tooltip is followed.
NoTooltip == [NewTooltip EXCEPT !.mounted = FALSE]

\* ------------------------------------------------------------------- Init
\* After the first render and its effect: loadMessages() has run up to its
\* await, so one fetch without a cursor is in flight.
InitStore ==
    /\ limit \in {Configured(argument) : argument \in Arguments}
    /\ messages = <<>>
    /\ isLoading = TRUE
    /\ isLoadingMore = FALSE
    /\ isSending = FALSE
    /\ error = Null
    /\ hasMore = FALSE
    /\ isLoadingMoreRef = FALSE
    /\ pending = SetToBag({FetchRequest("loadMessages", NoCursor, limit)})
    /\ last = Step("mount", "call", FetchRequest("loadMessages", NoCursor, limit),
                  "none", "pending", -1, NoMessage, Null)

Init ==
    /\ InitStore
    /\ loadOverlapped = FALSE
    /\ wire = NoExchange
    /\ server = NoServer
    /\ tooltip = NoTooltip

\* A store just created, and one call of the Transport about to meet its
\* exchange.
InitTransport ==
    /\ InitStore
    /\ loadOverlapped = FALSE
    /\ wire \in {[token |-> t, client |-> NotCreated, exchange |-> e,
                   sent |-> NotSent, result |-> Unsettled] :
                      t \in Tokens, e \in Exchanges}
    /\ server = NoServer
    /\ tooltip = NoTooltip

\* A Tooltip just rendered, beside a store just created.
InitTooltip ==
    /\ InitStore
    /\ loadOverlapped = FALSE
    /\ wire = NoExchange
    /\ server = NoServer
    /\ tooltip = NewTooltip

\* A store just created, in front of a server that holds some messages.
InitServer ==
    /\ InitStore
    /\ loadOverlapped = FALSE
    /\ wire = NoExchange
    /\ server \in {[history |-> h, created |-> {}] : h \in SUBSET Messages}
    /\ tooltip = NoTooltip

\* ---------------------------------------------------------- loadMessages
\* loadMessages() up to `await fetchMessages({ limit })`.
LoadMessagesStart(op) ==
    /\ CanIssue
    /\ isLoading' = TRUE
    /\ error' = Null
    /\ pending' = Issue(FetchRequest("loadMessages", NoCursor, limit))
    /\ last' = Step(op, "call", FetchRequest("loadMessages", NoCursor, limit),
                   "none", "pending", -1, NoMessage, Null)
    /\ UNCHANGED <<limit, messages, isLoadingMore, isSending, hasMore,
                   isLoadingMoreRef>>

\* A successful load that also clears the error.
LoadMessagesResolvedClearsError(request, page) ==
    /\ messages' = SortByTimestamp(page)
    /\ hasMore' = (Len(page) >= limit)
    /\ isLoading' = FALSE
    /\ error' = Null
    /\ pending' = Settle(request)
    /\ last' = [Step("loadMessages", "settle", NoRequest, "ok", "resolved", Len(page),
                    NoMessage, Null) EXCEPT !.page = Range(page)]
    /\ UNCHANGED <<limit, isLoadingMore, isSending, isLoadingMoreRef>>

\* The try block of loadMessages after the fetch resolved with `page`, then
\* finally.
\* A load that always reports more history.
LoadMessagesResolvedAlwaysMore(request, page) ==
    /\ messages' = SortByTimestamp(page)
    /\ hasMore' = TRUE
    /\ isLoading' = FALSE
    /\ pending' = Settle(request)
    /\ last' = [Step("loadMessages", "settle", NoRequest, "ok", "resolved", Len(page),
                    NoMessage, Null) EXCEPT !.page = Range(page)]
    /\ UNCHANGED <<limit, isLoadingMore, isSending, error, isLoadingMoreRef>>

LoadMessagesResolved(request, page) ==
    /\ messages' = SortByTimestamp(page)
    /\ hasMore' = (Len(page) >= limit)
    /\ isLoading' = FALSE
    /\ pending' = Settle(request)
    /\ last' = [Step("loadMessages", "settle", NoRequest, "ok", "resolved", Len(page),
                    NoMessage, Null) EXCEPT !.page = Range(page)]
    /\ UNCHANGED <<limit, isLoadingMore, isSending, error, isLoadingMoreRef>>

\* A catch block that rethrows: the promise of loadMessages rejects.
LoadMessagesRejectedRethrown(request, err) ==
    /\ error' = NormalizeError(err, "Failed to fetch messages")
    /\ isLoading' = FALSE
    /\ pending' = Settle(request)
    /\ last' = Step("loadMessages", "settle", NoRequest, "error", "rejected", -1, NoMessage, err)
    /\ UNCHANGED <<limit, messages, isLoadingMore, isSending, hasMore,
                   isLoadingMoreRef>>

\* The catch block of loadMessages after the fetch rejected with `err`,
\* then finally; the promise of loadMessages still resolves.
LoadMessagesRejected(request, err) ==
    /\ error' = NormalizeError(err, "Failed to fetch messages")
    /\ isLoading' = FALSE
    /\ pending' = Settle(request)
    /\ last' = Step("loadMessages", "settle", NoRequest, "error", "resolved", -1, NoMessage, err)
    /\ UNCHANGED <<limit, messages, isLoadingMore, isSending, hasMore,
                   isLoadingMoreRef>>

\* sendMessage that leaves an earlier error in place.
SendMessageStartKeepError(message, author) ==
    /\ CanIssue
    /\ isSending' = TRUE
    /\ pending' = Issue(SendRequest(message, author))
    /\ last' = Step("sendMessage", "call", SendRequest(message, author),
                   "none", "pending", -1, NoMessage, Null)
    /\ UNCHANGED <<limit, messages, isLoading, isLoadingMore, error, hasMore,
                   isLoadingMoreRef>>

\* String.prototype.trim on the strings of SendInputs.
Trim(string) == IF string = " " THEN "" ELSE string

\* sendMessage that trims what it is given before sending it.
SendMessageStartTrimmed(message, author) ==
    /\ CanIssue
    /\ isSending' = TRUE
    /\ error' = Null
    /\ pending' = Issue(SendRequest(Trim(message), Trim(author)))
    /\ last' = Step("sendMessage", "call", SendRequest(Trim(message), Trim(author)),
                   "none", "pending", -1, NoMessage, Null)
    /\ UNCHANGED <<limit, messages, isLoading, isLoadingMore, hasMore,
                   isLoadingMoreRef>>

\* ------------------------------------------------------------ sendMessage
\* sendMessage(message, author) up to `await sendMessageApi(...)`.
SendMessageStart(message, author) ==
    /\ CanIssue
    /\ isSending' = TRUE
    /\ error' = Null
    /\ pending' = Issue(SendRequest(message, author))
    /\ last' = Step("sendMessage", "call", SendRequest(message, author),
                   "none", "pending", -1, NoMessage, Null)
    /\ UNCHANGED <<limit, messages, isLoading, isLoadingMore, hasMore,
                   isLoadingMoreRef>>

\* The new message put at its place in timestamp order.
SendMessageResolvedInOrder(request, newMessage) ==
    /\ messages' = InsertByTimestamp(messages, newMessage)
    /\ isSending' = FALSE
    /\ pending' = Settle(request)
    /\ last' = Step("sendMessage", "settle", NoRequest, "ok", "resolved", -1, newMessage, Null)
    /\ UNCHANGED <<limit, isLoading, isLoadingMore, error, hasMore,
                   isLoadingMoreRef>>

\* A successful send without the finally block.
SendMessageResolvedNoFinally(request, newMessage) ==
    /\ messages' = Append(messages, newMessage)
    /\ pending' = Settle(request)
    /\ last' = Step("sendMessage", "settle", NoRequest, "ok", "resolved", -1, newMessage, Null)
    /\ UNCHANGED <<limit, isLoading, isLoadingMore, isSending, error, hasMore,
                   isLoadingMoreRef>>

\* setMessages((prevMessages) => [...prevMessages, newMessage]), finally.
SendMessageResolved(request, newMessage) ==
    /\ messages' = Append(messages, newMessage)
    /\ isSending' = FALSE
    /\ pending' = Settle(request)
    /\ last' = Step("sendMessage", "settle", NoRequest, "ok", "resolved", -1, newMessage, Null)
    /\ UNCHANGED <<limit, isLoading, isLoadingMore, error, hasMore,
                   isLoadingMoreRef>>

\* catch without `throw err`.
SendMessageRejectedSwallowed(request, err) ==
    /\ error' = NormalizeError(err, "Failed to send message")
    /\ isSending' = FALSE
    /\ pending' = Settle(request)
    /\ last' = Step("sendMessage", "settle", NoRequest, "error", "resolved", -1, NoMessage, err)
    /\ UNCHANGED <<limit, messages, isLoading, isLoadingMore, hasMore,
                   isLoadingMoreRef>>

\* catch: setError(...); throw err; finally.
SendMessageRejected(request, err) ==
    /\ error' = NormalizeError(err, "Failed to send message")
    /\ isSending' = FALSE
    /\ pending' = Settle(request)
    /\ last' = Step("sendMessage", "settle", NoRequest, "error", "rejected", -1, NoMessage, err)
    /\ UNCHANGED <<limit, messages, isLoading, isLoadingMore, hasMore,
                   isLoadingMoreRef>>

\* The guard without the in-flight ref.
LoadMoreGuardWithoutRef == ~hasMore \/ messages = <<>>

\* The guard without the hasMore check.
LoadMoreGuardWithoutHasMore == isLoadingMoreRef \/ messages = <<>>

\* --------------------------------------------------------------- loadMore
\* if (isLoadingMoreRef.current || !hasMore || messages.length === 0) return;
LoadMoreGuard == isLoadingMoreRef \/ ~hasMore \/ messages = <<>>

\* loadMore() that returns at its guard: nothing but the resolved promise.
LoadMoreNoop ==
    /\ LoadMoreGuard
    /\ last' = Step("loadMore", "call", NoRequest, "none", "resolved", -1, NoMessage, Null)
    /\ UNCHANGED <<limit, messages, isLoading, isLoadingMore, isSending, error,
                   hasMore, isLoadingMoreRef, pending>>

\* The cursor taken from the other end of the list.
NewestTimestamp == messages[Len(messages)].timestamp

\* const oldestTimestamp = messages[0]?.timestamp
OldestTimestamp == messages[1].timestamp

\* loadMore() that leaves an earlier error in place.
LoadMoreStartKeepError ==
    /\ ~LoadMoreGuard
    /\ CanIssue
    /\ isLoadingMoreRef' = TRUE
    /\ isLoadingMore' = TRUE
    /\ pending' = Issue(FetchRequest("loadMore", OldestTimestamp, limit))
    /\ last' = Step("loadMore", "call", FetchRequest("loadMore", OldestTimestamp, limit),
                   "none", "pending", -1, NoMessage, Null)
    /\ UNCHANGED <<limit, messages, isLoading, isSending, error, hasMore>>

\* loadMore() past its guard, up to `await fetchMessages({ after, limit })`.
LoadMoreStart ==
    /\ ~LoadMoreGuard
    /\ CanIssue
    /\ isLoadingMoreRef' = TRUE
    /\ isLoadingMore' = TRUE
    /\ error' = Null
    /\ pending' = Issue(FetchRequest("loadMore", OldestTimestamp, limit))
    /\ last' = Step("loadMore", "call", FetchRequest("loadMore", OldestTimestamp, limit),
                   "none", "pending", -1, NoMessage, Null)
    /\ UNCHANGED <<limit, messages, isLoading, isSending, hasMore>>

\* setMessages((prevMessages) => [...sortedOlderMessages, ...prevMessages])
\* when the page is not empty.
Prepend(olderMessages) ==
    IF Len(olderMessages) > 0
    THEN SortByTimestamp(olderMessages) \o messages
    ELSE messages

\* hasMore set only by a page longer than the limit.
LoadMoreResolvedStrict(request, olderMessages) ==
    /\ messages' = Prepend(olderMessages)
    /\ hasMore' = (Len(olderMessages) > limit)
    /\ isLoadingMoreRef' = FALSE
    /\ isLoadingMore' = FALSE
    /\ pending' = Settle(request)
    /\ last' = [Step("loadMore", "settle", NoRequest, "ok", "resolved", Len(olderMessages),
                    NoMessage, Null) EXCEPT !.page = Range(olderMessages)]
    /\ UNCHANGED <<limit, isLoading, isSending, error>>

\* A loadMore that drops its page when the list no longer starts at the
\* cursor it asked with.
LoadMoreResolvedIfCurrent(request, olderMessages) ==
    /\ messages' = (IF messages # <<>> /\ messages[1].timestamp = request.after
                    THEN Prepend(olderMessages) ELSE messages)
    /\ hasMore' = (Len(olderMessages) >= limit)
    /\ isLoadingMoreRef' = FALSE
    /\ isLoadingMore' = FALSE
    /\ pending' = Settle(request)
    /\ last' = [Step("loadMore", "settle", NoRequest, "ok", "resolved", Len(olderMessages),
                    NoMessage, Null) EXCEPT !.page = Range(olderMessages)]
    /\ UNCHANGED <<limit, isLoading, isSending, error>>

\* A loadMore that stores its page in place of the list.
LoadMoreResolvedOverwrite(request, olderMessages) ==
    /\ messages' = (IF Len(olderMessages) > 0 THEN SortByTimestamp(olderMessages)
                    ELSE messages)
    /\ hasMore' = (Len(olderMessages) >= limit)
    /\ isLoadingMoreRef' = FALSE
    /\ isLoadingMore' = FALSE
    /\ pending' = Settle(request)
    /\ last' = [Step("loadMore", "settle", NoRequest, "ok", "resolved", Len(olderMessages),
                    NoMessage, Null) EXCEPT !.page = Range(olderMessages)]
    /\ UNCHANGED <<limit, isLoading, isSending, error>>

\* A successful loadMore whose finally block leaves the guard ref set.
LoadMoreResolvedKeepGuard(request, olderMessages) ==
    /\ messages' = Prepend(olderMessages)
    /\ hasMore' = (Len(olderMessages) >= limit)
    /\ isLoadingMore' = FALSE
    /\ pending' = Settle(request)
    /\ last' = [Step("loadMore", "settle", NoRequest, "ok", "resolved", Len(olderMessages),
                    NoMessage, Null) EXCEPT !.page = Range(olderMessages)]
    /\ UNCHANGED <<limit, isLoading, isSending, error, isLoadingMoreRef>>

\* The try block of loadMore after the fetch resolved, then finally.
LoadMoreResolved(request, olderMessages) ==
    /\ messages' = Prepend(olderMessages)
    /\ hasMore' = (Len(olderMessages) >= limit)
    /\ isLoadingMoreRef' = FALSE
    /\ isLoadingMore' = FALSE
    /\ pending' = Settle(request)
    /\ last' = [Step("loadMore", "settle", NoRequest, "ok", "resolved", Len(olderMessages),
                    NoMessage, Null) EXCEPT !.page = Range(olderMessages)]
    /\ UNCHANGED <<limit, isLoading, isSending, error>>

\* A failed loadMore that also gives up on older pages.
LoadMoreRejectedNoMore(request, err) ==
    /\ error' = NormalizeError(err, "Failed to load more messages")
    /\ hasMore' = FALSE
    /\ isLoadingMoreRef' = FALSE
    /\ isLoadingMore' = FALSE
    /\ pending' = Settle(request)
    /\ last' = Step("loadMore", "settle", NoRequest, "error", "resolved", -1, NoMessage, err)
    /\ UNCHANGED <<limit, messages, isLoading, isSending>>

\* A failed loadMore whose finally block leaves the guard ref set.
LoadMoreRejectedKeepGuard(request, err) ==
    /\ error' = NormalizeError(err, "Failed to load more messages")
    /\ isLoadingMore' = FALSE
    /\ pending' = Settle(request)
    /\ last' = Step("loadMore", "settle", NoRequest, "error", "resolved", -1, NoMessage, err)
    /\ UNCHANGED <<limit, messages, isLoading, isSending, hasMore, isLoadingMoreRef>>

\* The catch block of loadMore after the fetch rejected, then finally.
LoadMoreRejected(request, err) ==
    /\ error' = NormalizeError(err, "Failed to load more messages")
    /\ isLoadingMoreRef' = FALSE
    /\ isLoadingMore' = FALSE
    /\ pending' = Settle(request)
    /\ last' = Step("loadMore", "settle", NoRequest, "error", "resolved", -1, NoMessage, err)
    /\ UNCHANGED <<limit, messages, isLoading, isSending, hasMore>>

\* -------------------------------------------------------------- Transport
\* Pages a fetch with this limit may resolve with (up to one message more
\* than asked for), short enough for the list to stay within MaxLen.
PagesFor(room) ==
    UNION {AllPages[k] : k \in 0..(IF room < limit + 1 THEN room ELSE limit + 1)}

\* A page all of whose messages are strictly older than the cursor.
Older(page, after) ==
    \A i \in 1..Len(page) : getTime(page[i].timestamp) < getTime(after)

\* --------------------------------------------------------- the operations
\* retry() that does nothing unless an error is stored.
RetryOnError ==
    /\ error # Null
    /\ LoadMessagesStart("retry")
    /\ UNCHANGED <<loadOverlapped, wire, server, tooltip>>

\* retry(): await loadMessages().  loadOverlapped is recorded under
\* SpecPaged only.
Retry ==
    /\ LoadMessagesStart("retry")
    /\ UNCHANGED <<loadOverlapped, wire, server, tooltip>>

Send ==
    /\ \E input \in SendInputs : SendMessageStart(input[1], input[2])
    /\ UNCHANGED <<loadOverlapped, wire, server, tooltip>>

LoadMore ==
    /\ LoadMoreNoop \/ LoadMoreStart
    /\ UNCHANGED <<loadOverlapped, wire, server, tooltip>>

LoadMessagesSettled ==
    \E request \in InFlight("loadMessages"), page \in PagesFor(MaxLen) :
        LoadMessagesResolved(request, page)

LoadMessagesOk ==
    /\ LoadMessagesSettled
    /\ UNCHANGED <<loadOverlapped, wire, server, tooltip>>

LoadMessagesOkObserved ==
    /\ LoadMessagesSettled
    /\ loadOverlapped' = (loadOverlapped \/ InFlight("loadMore") # {})
    /\ UNCHANGED <<wire, server, tooltip>>

LoadMessagesFail ==
    /\ \E request \in InFlight("loadMessages"), err \in Rejections :
            LoadMessagesRejected(request, err)
    /\ UNCHANGED <<loadOverlapped, wire, server, tooltip>>

SendOk ==
    /\ Len(messages) < MaxLen
    /\ \E request \in InFlight("sendMessage"), newMessage \in Messages :
            SendMessageResolved(request, newMessage)
    /\ UNCHANGED <<loadOverlapped, wire, server, tooltip>>

SendFail ==
    /\ \E request \in InFlight("sendMessage"), err \in Rejections :
            SendMessageRejected(request, err)
    /\ UNCHANGED <<loadOverlapped, wire, server, tooltip>>

LoadMoreOk ==
    /\ \E request \in InFlight("loadMore"), page \in PagesFor(MaxLen - Len(messages)) :
            LoadMoreResolved(request, page)
    /\ UNCHANGED <<loadOverlapped, wire, server, tooltip>>

\* The same, for a Transport that honours the cursor.
LoadMoreOkOlder ==
    /\ \E request \in InFlight("loadMore"), page \in PagesFor(MaxLen - Len(messages)) :
            /\ Older(page, request.after)
            /\ LoadMoreResolved(request, page)
    /\ UNCHANGED <<loadOverlapped, wire, server, tooltip>>

LoadMoreFail ==
    /\ \E request \in InFlight("loadMore"), err \in Rejections :
            LoadMoreRejected(request, err)
    /\ UNCHANGED <<loadOverlapped, wire, server, tooltip>>

\* Any Transport, every operation.
Next ==
    \/ Retry
    \/ Send
    \/ LoadMore
    \/ LoadMessagesOk
    \/ LoadMessagesFail
    \/ SendOk
    \/ SendFail
    \/ LoadMoreOk
    \/ LoadMoreFail

Spec == Init /\ [][Next]_vars

\* Initial load, retry and loadMore only, against a Transport whose
\* paginated pages are strictly older than the requested cursor.
NextPaged ==
    \/ Retry
    \/ LoadMore
    \/ LoadMessagesOkObserved
    \/ LoadMessagesFail
    \/ LoadMoreOkOlder
    \/ LoadMoreFail

SpecPaged == Init /\ [][NextPaged]_vars

\* ------------------------------------------------- the Transport's calls
\* const apiClient = createApiClient({ baseUrl, token: config.apiToken })
CreateApiClient ==
    /\ wire.client = NotCreated
    /\ wire' = [wire EXCEPT !.client = createApiClient(wire.token)]
    /\ UNCHANGED <<limit, messages, isLoading, isLoadingMore, isSending, error,
                   hasMore, isLoadingMoreRef, pending, last, loadOverlapped, server, tooltip>>

\* fetchMessages: client.get issues its request and the promise settles.
FetchMessagesSettles ==
    /\ wire.client.state = "created"
    /\ wire.exchange.function = "fetchMessages"
    /\ wire.result = Unsettled
    /\ wire' = [wire EXCEPT !.sent = FetchCall("GET", wire.client),
                            !.result = fetchMessages(wire.exchange)]
    /\ UNCHANGED <<limit, messages, isLoading, isLoadingMore, isSending, error,
                   hasMore, isLoadingMoreRef, pending, last, loadOverlapped, server, tooltip>>

\* sendMessage: client.post issues its request and the promise settles.
SendMessageSettles ==
    /\ wire.client.state = "created"
    /\ wire.exchange.function = "sendMessage"
    /\ wire.result = Unsettled
    /\ wire' = [wire EXCEPT !.sent = FetchCall("POST", wire.client),
                            !.result = sendMessage(wire.exchange)]
    /\ UNCHANGED <<limit, messages, isLoading, isLoadingMore, isSending, error,
                   hasMore, isLoadingMoreRef, pending, last, loadOverlapped, server, tooltip>>

NextTransport ==
    \/ CreateApiClient
    \/ FetchMessagesSettles
    \/ SendMessageSettles

\* The client made at start-up and one call of fetchMessages or sendMessage,
\* whatever the token, the network and the server's answer.
SpecTransport == InitTransport /\ [][NextTransport]_vars

\* --------------------------------------- the operations against a server
\* The server takes a POST /api/v1/messages that is in flight and creates
\* its message, with an id no message has yet.
ServerCreates ==
    /\ \E request \in InFlight("sendMessage") :
           CopiesIn(request, pending) > Cardinality(server.created)
    /\ \E m \in Messages \ server.history :
           server' = [history |-> server.history \cup {m},
                      created |-> server.created \cup {m}]
    /\ UNCHANGED <<limit, messages, isLoading, isLoadingMore, isSending, error,
                   hasMore, isLoadingMoreRef, pending, last, loadOverlapped, wire, tooltip>>

\* An initial load or retry answered with the newest messages held.
LoadMessagesServed ==
    /\ \E request \in InFlight("loadMessages"), page \in Served(NoCursor, limit) :
           /\ Len(page) <= MaxLen
           /\ LoadMessagesResolved(request, page)
    /\ UNCHANGED <<loadOverlapped, wire, server, tooltip>>

\* A loadMore answered with the newest messages before its cursor.
LoadMoreServed ==
    /\ \E request \in InFlight("loadMore") :
           \E page \in Served(request.after, limit) :
               /\ Len(messages) + Len(page) <= MaxLen
               /\ LoadMoreResolved(request, page)
    /\ UNCHANGED <<loadOverlapped, wire, server, tooltip>>

\* A send answered with the message the server created for it.
SendServed ==
    /\ Len(messages) < MaxLen
    /\ \E request \in InFlight("sendMessage"), m \in server.created :
           /\ SendMessageResolved(request, m)
           /\ server' = [server EXCEPT !.created = server.created \ {m}]
    /\ UNCHANGED <<loadOverlapped, wire, tooltip>>

\* A send that fails: the request never reached the server, or the answer
\* with the message created was lost.
SendLost ==
    /\ \E request \in InFlight("sendMessage"), err \in Rejections :
           /\ SendMessageRejected(request, err)
           /\ \/ /\ CopiesIn(request, pending) > Cardinality(server.created)
                 /\ server' = server
              \/ \E m \in server.created :
                     server' = [server EXCEPT !.created = server.created \ {m}]
    /\ UNCHANGED <<loadOverlapped, wire, tooltip>>

\* Every operation, against a server that gives every message it creates a
\* new id and answers every fetch by the cursor contract.
NextServer ==
    \/ Retry
    \/ Send
    \/ LoadMore
    \/ ServerCreates
    \/ LoadMessagesServed
    \/ LoadMessagesFail
    \/ SendServed
    \/ SendLost
    \/ LoadMoreServed
    \/ LoadMoreFail

SpecServer == InitServer /\ [][NextServer]_vars

\* The initial load and loadMore only, every fetch answered from a history
\* that does not change.
NextHistory ==
    \/ LoadMore
    \/ LoadMessagesServed
    \/ LoadMoreServed

SpecHistory == InitServer /\ [][NextHistory]_vars

\* ------------------------------------------- the operations of a Tooltip
\* onMouseEnter / onFocus: start a timer and keep its id in timeoutRef,
\* whatever timeoutRef held.
showTooltip ==
    /\ tooltip.mounted
    /\ tooltip.issued < MaxTimers
    /\ tooltip' = [tooltip EXCEPT !.timeoutRef = tooltip.issued + 1,
                                  !.timers = tooltip.timers \cup {tooltip.issued + 1},
                                  !.issued = tooltip.issued + 1,
                                  !.hidden = FALSE]
    /\ UNCHANGED <<limit, messages, isLoading, isLoadingMore, isSending, error,
                   hasMore, isLoadingMoreRef, pending, last, loadOverlapped, wire,
                   server>>

\* onMouseLeave / onBlur: clear the timer timeoutRef holds, if it holds
\* one, and hide.
hideTooltip ==
    /\ tooltip.mounted
    /\ tooltip' = [tooltip EXCEPT !.timers = tooltip.timers \ {tooltip.timeoutRef},
                                  !.timeoutRef = NoTimer,
                                  !.isVisible = FALSE,
                                  !.hidden = TRUE]
    /\ UNCHANGED <<limit, messages, isLoading, isLoadingMore, isSending, error,
                   hasMore, isLoadingMoreRef, pending, last, loadOverlapped, wire,
                   server>>

\* A timer fires: calculatePosition(); setIsVisible(true). timeoutRef keeps
\* the id. On an unmounted Tooltip neither call has an effect.
TimerFires ==
    /\ \E id \in tooltip.timers, place \in Coords :
           tooltip' =
               IF tooltip.mounted
               THEN [tooltip EXCEPT !.timers = tooltip.timers \ {id},
                                    !.coords = place,
                                    !.isVisible = TRUE]
               ELSE [tooltip EXCEPT !.timers = tooltip.timers \ {id}]
    /\ UNCHANGED <<limit, messages, isLoading, isLoadingMore, isSending, error,
                   hasMore, isLoadingMoreRef, pending, last, loadOverlapped, wire,
                   server>>

\* The effect's cleanup at unmount: clear the timer timeoutRef holds.
Unmount ==
    /\ tooltip.mounted
    /\ tooltip' = [tooltip EXCEPT !.mounted = FALSE,
                                  !.timers = tooltip.timers \ {tooltip.timeoutRef}]
    /\ UNCHANGED <<limit, messages, isLoading, isLoadingMore, isSending, error,
                   hasMore, isLoadingMoreRef, pending, last, loadOverlapped, wire,
                   server>>

NextTooltip ==
    \/ showTooltip
    \/ hideTooltip
    \/ TimerFires
    \/ Unmount

SpecTooltip == InitTooltip /\ [][NextTooltip]_vars

\* Every Transport call settles: a family with a request in flight sees
\* one of its requests resolved or rejected sooner or later.  Nothing
\* obliges the caller to start an operation.
SpecSettling ==
    /\ Spec
    /\ WF_vars(LoadMessagesOk \/ LoadMessagesFail)
    /\ WF_vars(SendOk \/ SendFail)
    /\ WF_vars(LoadMoreOk \/ LoadMoreFail)

\* ------------------------------------------------------------- properties
\* Non-decreasing timestamp order, oldest first.
Sorted(list) ==
    \A i, j \in 1..Len(list) :
        i < j => getTime(list[i].timestamp) <= getTime(list[j].timestamp)

\* The step into the next state is a call of loadMore().
LoadMoreCalled == last'.op = "loadMore" /\ last'.phase = "call"

\* The step into the next state applied a successful fetch.
FetchApplied ==
    /\ last'.op \in {"loadMessages", "loadMore"}
    /\ last'.phase = "settle"
    /\ last'.outcome = "ok"

\* The step into the next state applied a successful send.
SendApplied ==
    last'.op = "sendMessage" /\ last'.phase = "settle" /\ last'.outcome = "ok"

\* The step into the next state applied a failure.
FailureApplied == last'.phase = "settle" /\ last'.outcome = "error"

\* C1: while a loadMore request is in flight, a further loadMore call
\* resolves at once, issues no Transport request and changes no Store state;
\* so at most one pagination request is ever in flight.
C1_LoadMoreSuppressed ==
    /\ [][(InFlight("loadMore") # {} /\ LoadMoreCalled) =>
            /\ last'.promise = "resolved"
            /\ ~last'.issued
            /\ pending' = pending
            /\ store' = store]_vars
    /\ [](/\ Cardinality(InFlight("loadMore")) <= 1
          /\ \A r \in InFlight("loadMore") : CopiesIn(r, pending) = 1)

C1_Witness ==
    /\ InFlight("loadMore") # {}
    /\ last.op = "loadMore" /\ last.phase = "call" /\ ~last.issued

\* C2 as claimed: with initial load, retry and loadMore only, and every
\* paginated page strictly older than the requested cursor, messages is
\* sorted by timestamp in every reachable state.
C2_AlwaysSorted == Sorted(messages)

\* C2 as amended: the same, provided no initial-load or retry result was
\* applied while a loadMore request was in flight.
C2_SortedUnlessOverlapped == ~loadOverlapped => Sorted(messages)

C2_Witness ==
    /\ ~loadOverlapped
    /\ last.op = "loadMore" /\ last.outcome = "ok" /\ last.fetched > 0
    /\ Len(messages) >= 2

\* C3: a fetch issued by loadMore carries the timestamp of messages[0] as
\* held at the call and the configured limit, the limit every initial load
\* carries too.
C3_CursorAndLimit ==
    /\ [][(LoadMoreCalled /\ last'.issued) =>
            /\ messages # <<>>
            /\ last'.request = FetchRequest("loadMore", messages[1].timestamp, limit)
            /\ pending' = pending (+) SetToBag({last'.request})]_vars
    /\ []((last.phase = "call" /\ last.op \in {"mount", "retry"}) =>
            last.request = FetchRequest("loadMessages", NoCursor, limit))

C3_Witness ==
    /\ last.op = "loadMore" /\ last.issued
    /\ Len(messages) >= 2
    /\ messages[1].timestamp # messages[Len(messages)].timestamp

\* C4: whenever loadMore issues a request, its cursor is the minimum
\* timestamp among the messages held.
C4_CursorIsMinimum ==
    (last.op = "loadMore" /\ last.issued) =>
        \A r \in InFlight("loadMore") : \A i \in 1..Len(messages) :
            getTime(r.after) <= getTime(messages[i].timestamp)

\* C5: hasMore is false until a fetch succeeds, is set by every successful
\* load, retry and loadMore to whether its page held at least limit items,
\* and is left alone by every other step.
C5_HasMore ==
    /\ ~hasMore
    /\ []((last.phase = "settle" /\ last.outcome = "ok" /\ last.fetched >= 0) =>
            hasMore = (last.fetched >= limit))
    /\ [][~FetchApplied => hasMore' = hasMore]_vars

C5_Witness ==
    /\ last.op = "loadMore" /\ last.outcome = "ok"
    /\ last.fetched < limit
    /\ ~hasMore
    /\ messages # <<>>

\* C6: loadMore called with messages empty or hasMore false issues no
\* Transport request and leaves the Store state and the guard ref as they
\* were.
C6_NoopGuards ==
    [][(LoadMoreCalled /\ (messages = <<>> \/ ~hasMore)) =>
          /\ ~last'.issued
          /\ last'.promise = "resolved"
          /\ pending' = pending
          /\ store' = store
          /\ isLoadingMoreRef' = isLoadingMoreRef]_vars

C6_Witness ==
    /\ last.op = "loadMore" /\ last.phase = "call" /\ ~last.issued
    /\ ~hasMore
    /\ messages # <<>>
    /\ error # Null
    /\ ~isLoadingMoreRef

C8_SendLeavesNoError ==
    (last.op = "sendMessage" /\ last.phase = "settle" /\ last.outcome = "ok") =>
        (~isSending /\ error = Null)

\* C8 as amended: when a successful send resolves, isSending is false and
\* error is what it was just before; the send cleared it when it started and
\* only a failure applied since then can have set it.
C8_SendKeepsError ==
    /\ [][SendApplied => (~isSending' /\ error' = error)]_vars
    /\ [][(last'.op = "sendMessage" /\ last'.phase = "call") => error' = Null]_vars
    /\ [][(error' # error /\ error' # Null) => FailureApplied]_vars

C8_Witness ==
    /\ last.op = "sendMessage" /\ last.outcome = "ok"
    /\ ~isSending
    /\ error = Null
    /\ isLoading

\* C9: when the Transport's send fails, the failure is stored in error, the
\* promise returned by sendMessage rejects, and isSending is false.
C9_SendFailure ==
    (last.op = "sendMessage" /\ last.phase = "settle" /\ last.outcome = "error") =>
        /\ error = (IF last.reason.kind = "Error" THEN last.reason
                    ELSE [kind |-> "Error", message |-> "Failed to send message"])
        /\ last.promise = "rejected"
        /\ ~isSending

C9_Witness ==
    /\ last.op = "sendMessage" /\ last.outcome = "error"
    /\ last.reason = StringRejection
    /\ last.promise = "rejected"

\* C10: a failed initial load, retry, loadMore or send leaves messages and
\* hasMore as they were.
C10_FailureKeepsList ==
    [][FailureApplied => (messages' = messages /\ hasMore' = hasMore)]_vars

C10_Witness ==
    /\ last.op = "loadMore" /\ last.outcome = "error"
    /\ messages # <<>>
    /\ hasMore

\* The operation family of a step: mount and retry run loadMessages.
Family(op) == IF op \in {"mount", "retry", "loadMessages"} THEN "loadMessages" ELSE op

\* The family whose catch block alone builds an error with this message.
Producer(message) ==
    CASE message = "Failed to fetch messages" -> "loadMessages"
      [] message = "Failed to load more messages" -> "loadMore"
      [] message = "Failed to send message" -> "sendMessage"
      [] OTHER -> "any"

\* The message of the generic Error an operation stores.
Fallback(op) ==
    CASE Family(op) = "loadMessages" -> "Failed to fetch messages"
      [] Family(op) = "loadMore" -> "Failed to load more messages"
      [] OTHER -> "Failed to send message"

\* C11 as claimed: an error produced by one family changes only when the
\* next attempt of that same family starts; no step of another family
\* clears or overwrites it.
C11_OwnErrorSlot ==
    [][(Producer(error.message) # "any" /\ error' # error) =>
          /\ last'.phase = "call"
          /\ Family(last'.op) = Producer(error.message)]_vars

\* C11 as amended: the families share one error slot; every operation that
\* issues a request clears it, every failure overwrites it with its own
\* normalized error, and every other step leaves it as it was.
C11_SharedErrorSlot ==
    /\ [][(last'.phase = "call" /\ last'.issued) => error' = Null]_vars
    /\ [][FailureApplied =>
            error' = (IF last'.reason.kind = "Error" THEN last'.reason
                      ELSE [kind |-> "Error", message |-> Fallback(last'.op)])]_vars
    /\ [][~(last'.phase = "call" /\ last'.issued) /\ ~FailureApplied =>
            error' = error]_vars

C11_Witness ==
    /\ last.op = "loadMore" /\ last.phase = "call" /\ last.issued
    /\ error = Null
    /\ isSending
    /\ ~isLoading

\* C12: retry() can be called in every state and always sets isLoading,
\* clears error and issues exactly one fetch without a cursor and with the
\* configured limit, touching nothing else; a successful initial load or
\* retry replaces messages by its page sorted ascending.
C12_RetryLoads ==
    /\ [][last'.op = "retry" =>
            /\ isLoading' /\ error' = Null
            /\ last'.request = FetchRequest("loadMessages", NoCursor, limit)
            /\ pending' = pending (+) SetToBag({last'.request})
            /\ UNCHANGED <<messages, isLoadingMore, isSending, hasMore>>]_vars
    /\ [](CanIssue => ENABLED Retry)
    /\ []((last.op = "loadMessages" /\ last.outcome = "ok") =>
            /\ Sorted(messages)
            /\ Range(messages) = last.page
            /\ Len(messages) = last.fetched)

C12_Witness ==
    /\ last.op = "retry"
    /\ error = Null
    /\ isLoading /\ isLoadingMore
    /\ messages # <<>>
    /\ pending = SetToBag({FetchRequest("loadMessages", NoCursor, limit),
                           FetchRequest("loadMore", messages[1].timestamp, limit)})

\* C13: the promise of an initial load, a retry or a loadMore is never
\* rejected: it is pending until the fetch settles (or resolved at once by
\* the guard of loadMore) and resolved afterwards, on success and on failure
\* alike, the failure being stored in error.
C13_LoadsNeverReject ==
    last.op \in {"mount", "retry", "loadMessages", "loadMore"} =>
        /\ last.promise # "rejected"
        /\ last.phase = "settle" => last.promise = "resolved"
        /\ last.outcome = "error" => (error # Null /\ error.kind = "Error")

C13_Witness ==
    /\ last.op = "loadMessages" /\ last.outcome = "error"
    /\ last.promise = "resolved"
    /\ error = NetworkError
    /\ messages # <<>>

\* C14: isLoading is true only while an initial-load or retry fetch is in
\* flight, isLoadingMore only while a loadMore fetch is in flight, and
\* isSending only while a send is in flight.
C14_FlagsImplyInFlight ==
    /\ isLoading => InFlight("loadMessages") # {}
    /\ isLoadingMore => InFlight("loadMore") # {}
    /\ isSending => InFlight("sendMessage") # {}

C14_Witness ==
    /\ isSending /\ isLoadingMore /\ ~isLoading
    /\ InFlight("loadMessages") = {}
    /\ last.op = "sendMessage" /\ last.phase = "call"

\* C15: when every Transport call settles, a flag that is set is cleared
\* sooner or later, and so is the guard ref of loadMore; whenever nothing is
\* in flight, isLoading, isLoadingMore and isSending are false and the guard
\* ref is released.
C15_FlagsCleared ==
    /\ [](pending = EmptyBag =>
            ~isLoading /\ ~isLoadingMore /\ ~isSending /\ ~isLoadingMoreRef)
    /\ isLoading ~> ~isLoading
    /\ isLoadingMore ~> ~isLoadingMore
    /\ isSending ~> ~isSending
    /\ isLoadingMoreRef ~> ~isLoadingMoreRef

C15_Witness ==
    /\ pending = EmptyBag
    /\ last.op = "loadMore" /\ last.outcome = "error"
    /\ ~isLoadingMore /\ ~isLoadingMoreRef
    /\ error # Null

\* C16: a request in flight can always settle, by success or by failure,
\* whatever else is in flight; the step that settles one takes one request
\* of its family and nothing else out of those in flight, and a loadMore
\* that succeeds puts its page, sorted, before the list as it stands then
\* and sets hasMore, whatever happened to the list since the call.
C16_HandlersApply ==
    /\ [](\A request \in BagToSet(pending) :
            CASE request.kind = "loadMessages" ->
                    /\ ENABLED LoadMessagesResolved(request, <<>>)
                    /\ ENABLED LoadMessagesRejected(request, NetworkError)
              [] request.kind = "loadMore" ->
                    /\ ENABLED LoadMoreResolved(request, <<>>)
                    /\ ENABLED LoadMoreRejected(request, NetworkError)
              [] OTHER ->
                    /\ ENABLED SendMessageResolved(request, Message(1))
                    /\ ENABLED SendMessageRejected(request, NetworkError))
    /\ [][last'.phase = "settle" =>
            \E request \in InFlight(last'.op) :
                pending' = pending (-) SetToBag({request})]_vars
    /\ [][(last'.op = "loadMore" /\ last'.outcome = "ok") =>
            /\ Len(messages') = last'.fetched + Len(messages)
            /\ Sorted(SubSeq(messages', 1, last'.fetched))
            /\ Range(SubSeq(messages', 1, last'.fetched)) = last'.page
            /\ SubSeq(messages', last'.fetched + 1, Len(messages')) = messages
            /\ hasMore' = (last'.fetched >= limit)]_vars

C16_Witness ==
    /\ last.op = "loadMessages" /\ last.outcome = "ok"
    /\ messages # <<>>
    /\ isLoadingMore
    /\ \E request \in InFlight("loadMore") :
            /\ request.after # messages[1].timestamp
            /\ ENABLED LoadMoreResolved(request, <<Message(1)>>)

\* C17: at creation messages is empty, isLoading is true, isLoadingMore and
\* isSending are false, error is null, hasMore is false, and exactly one
\* fetch is in flight, without a cursor and with the configured limit,
\* which is 30 when none was given.
C17_Creation ==
    last.op = "mount" =>
        /\ limit \in Limits \cup {30}
        /\ messages = <<>>
        /\ isLoading /\ ~isLoadingMore /\ ~isSending
        /\ error = Null
        /\ ~hasMore
        /\ last.request = FetchRequest("loadMessages", NoCursor, limit)
        /\ pending = SetToBag({last.request})

C17_Witness ==
    /\ last.op = "mount"
    /\ pending = SetToBag({FetchRequest("loadMessages", NoCursor, 30)})

\* C18: after a failure, error is the value the Transport rejected with
\* when that is an Error, and otherwise a generic Error whose message is
\* 'Failed to fetch messages' for an initial load or retry, 'Failed to load
\* more messages' for loadMore and 'Failed to send message' for a send.
C18_NormalizedError ==
    (last.phase = "settle" /\ last.outcome = "error") =>
        IF last.reason.kind = "Error"
        THEN error = last.reason
        ELSE /\ error.kind = "Error"
             /\ last.op = "loadMessages" => error.message = "Failed to fetch messages"
             /\ last.op = "loadMore" => error.message = "Failed to load more messages"
             /\ last.op = "sendMessage" => error.message = "Failed to send message"
             /\ last.op \in {"loadMessages", "loadMore", "sendMessage"}

C18_Witness ==
    /\ last.op = "loadMore" /\ last.outcome = "error"
    /\ last.reason = StringRejection
    /\ error = [kind |-> "Error", message |-> "Failed to load more messages"]

\* C19: sendMessage(message, author) called with any two strings, empty
\* and blank ones included, issues one Transport send whose body carries
\* exactly that message and that author, and issues nothing else.
C19_SendPassesThrough ==
    CanIssue =>
        \A input \in SendInputs :
            ENABLED (/\ SendMessageStart(input[1], input[2])
                     /\ UNCHANGED <<loadOverlapped, wire, server, tooltip>>
                     /\ last'.issued
                     /\ last'.request.kind = "sendMessage"
                     /\ last'.request.message = input[1]
                     /\ last'.request.author = input[2]
                     /\ pending' = pending (+) SetToBag({Call(last'.request)}))

C19_Witness ==
    /\ last.op = "sendMessage" /\ last.issued
    /\ last.request.message = "" /\ last.request.author = " "
    /\ BagCardinality(pending) = 2

\* A body that is not what the call expects: no JSON, or JSON without a
\* messages array for fetchMessages, JSON that is not a Message for
\* sendMessage.
Malformed(exchange) ==
    IF exchange.function = "fetchMessages"
    THEN exchange.body.parsed # "object" \/ exchange.body.messages.type # "array"
    ELSE ~exchange.body.isMessage

\* C20: when the network call fails, the status is not ok or the body is
\* malformed, the promise of fetchMessages or sendMessage is rejected with
\* an Error whose message is not empty, never resolved.
C20_TransportRejects ==
    (/\ wire.result # Unsettled
     /\ \/ wire.exchange.network = "fails"
        \/ ~wire.exchange.ok
        \/ Malformed(wire.exchange)) =>
        /\ wire.result.state = "rejected"
        /\ wire.result.error.kind = "Error"
        /\ wire.result.error.message # ""

\* C21: without a token, or with an empty one, createApiClient throws at
\* creation and there is no client; a client that exists was made with a
\* token, and every request issued carries Authorization: Bearer <token>.
C21_CredentialRequired ==
    /\ (wire.client # NotCreated /\ wire.token \in {Undefined, String("")}) =>
            /\ wire.client.state = "thrown"
            /\ wire.client.error.kind = "Error"
            /\ wire.sent = NotSent
    /\ wire.client.state = "created" =>
            /\ wire.token.type = "string" /\ wire.token.text # ""
            /\ wire.client.headers.Authorization =
                   [scheme |-> "Bearer", credential |-> wire.token.text]
    /\ (wire.sent # NotSent \/ wire.result # Unsettled) =>
            /\ wire.sent.method \in {"GET", "POST"}
            /\ wire.sent.headers.Authorization.scheme = "Bearer"
            /\ wire.sent.headers.Authorization.credential = wire.token.text
            /\ wire.token.text # "" /\ wire.token # Undefined

C21_Witness ==
    /\ wire.token = String("test-token")
    /\ wire.exchange.function = "sendMessage"
    /\ wire.sent.method = "POST"
    /\ wire.sent.headers.Authorization = [scheme |-> "Bearer", credential |-> "test-token"]
    /\ wire.result.state = "rejected"

LoadRequest == FetchRequest("loadMessages", NoCursor, limit)

\* C23 as claimed: when the last of the overlapping initial loads and
\* retries to settle succeeds, the state is the one that request produces,
\* so no failure of an initial load is left in error.
C23_LastSettledWins ==
    (/\ last.op = "loadMessages" /\ last.outcome = "ok"
     /\ InFlight("loadMessages") = {}) =>
        error.message # "Failed to fetch messages"

\* C23 as amended: a retry called while a load is in flight adds a second
\* request; each of them, when it settles, takes one request out and is
\* applied: a success sets messages and hasMore from its page and leaves
\* error alone, a failure sets error and leaves messages and hasMore alone.
C23_EachResultApplied ==
    /\ [][last'.op = "retry" =>
            CopiesIn(LoadRequest, pending') = CopiesIn(LoadRequest, pending) + 1]_vars
    /\ [][(last'.op = "loadMessages" /\ last'.phase = "settle") =>
            /\ CopiesIn(LoadRequest, pending') = CopiesIn(LoadRequest, pending) - 1
            /\ IF last'.outcome = "ok"
               THEN /\ Sorted(messages') /\ Range(messages') = last'.page
                    /\ hasMore' = (last'.fetched >= limit)
                    /\ error' = error
               ELSE /\ messages' = messages /\ hasMore' = hasMore
                    /\ error' # Null /\ error'.kind = "Error"]_vars

C23_Witness ==
    /\ last.op = "loadMessages" /\ last.outcome = "ok"
    /\ InFlight("loadMessages") = {}
    /\ error = [kind |-> "Error", message |-> "Failed to fetch messages"]
    /\ messages # <<>>

C25_UniqueIds ==
    \A i, j \in 1..Len(messages) : i # j => messages[i].id # messages[j].id

\* C26: a message appended by a successful send is still in messages after
\* an initial load or retry that was in flight when the send resolved
\* settles.
C26_SentMessageKept ==
    [][(/\ last.op = "sendMessage" /\ last.outcome = "ok"
        /\ last'.op = "loadMessages" /\ last'.phase = "settle")
          => last.value \in Range(messages')]_vars

\* C27: isSending is true while a send is in flight and isLoading is true
\* while an initial load or retry is in flight.
C27_FlagsCoverInFlight ==
    /\ InFlight("sendMessage") # {} => isSending
    /\ InFlight("loadMessages") # {} => isLoading

\* C28: the limit being positive, hasMore implies that messages holds at
\* least limit entries, so messages is not empty whenever hasMore is true.
C28_HasMoreImpliesFull ==
    hasMore => Len(messages) >= limit /\ messages # <<>>

C28_Witness ==
    /\ last.op = "loadMore" /\ last.outcome = "ok"
    /\ hasMore
    /\ limit > 0
    /\ Len(messages) > limit

\* C29: against a history that does not change, once a successful loadMore
\* has set hasMore to false, messages holds every message of the history
\* exactly once.
C29_WholeHistoryLoaded ==
    (last.op = "loadMore" /\ last.outcome = "ok" /\ ~hasMore)
        => /\ Range(messages) = server.history
           /\ Len(messages) = Cardinality(server.history)

\* C30: after hideTooltip has run, and until showTooltip is called again, no
\* show timer is pending and the tooltip is not visible.
C30_NoTimerAfterHide ==
    (tooltip.mounted /\ tooltip.hidden)
        => tooltip.timers = {} /\ ~tooltip.isVisible

====
